---- MODULE Spec2Model ----
(***************************************************************************)
(* A model of bin/compile_language_docs.py: the markdown collector, the    *)
(* compiler, the writer and the entry point, run over a small file system. *)
(*                                                                         *)
(* Text is a sequence of one-character strings, so that trimming, joining, *)
(* path parsing and path comparison are computed character by character.   *)
(* A path is the sequence of its segments below the repository root, which *)
(* is also taken to be the working directory of the process.               *)
(***************************************************************************)
EXTENDS Integers, Sequences, FiniteSets, TLC

VARIABLES
  fs,           \* the file system: path -> [kind, text, ok]
  argv,         \* the command line after the program name: <<>> or <<arg>>
  pc,           \* position of the running process in main()
  output,       \* args.output
  md_files,     \* main's md_files
  sections,     \* build_compilation's sections
  compiled,     \* main's compiled: <<>> until built, then <<string>>
  destination,  \* main's destination: <<>> is None, <<p>> is Path p
  stdout,       \* what the process wrote to standard output
  stderr,       \* the diagnostic the process ended with
  status,       \* exit status, -1 while running
  runs,         \* number of processes started so far
  fs0,          \* the file system as it was when the current process started
  prev          \* compiled of the previous process, <<>> when it built none

vars == <<fs, argv, pc, output, md_files, sections, compiled, destination,
          stdout, stderr, status, runs, fs0, prev>>

----------------------------------------------------------------------------
(* Bounds *)

MaxRuns == 2
MaxEntries == 3

----------------------------------------------------------------------------
(* Characters and strings *)

Ord ==
  ("\t" :> 9) @@ ("\n" :> 10) @@ (" " :> 32) @@ ("#" :> 35) @@ ("-" :> 45) @@
  ("." :> 46) @@ ("/" :> 47) @@ ("0" :> 48) @@ ("1" :> 49) @@ (":" :> 58) @@
  ("F" :> 70) @@ ("H" :> 72) @@ ("W" :> 87) @@ ("_" :> 95) @@ ("a" :> 97) @@
  ("b" :> 98) @@ ("c" :> 99) @@ ("d" :> 100) @@ ("e" :> 101) @@ ("f" :> 102) @@
  ("g" :> 103) @@ ("i" :> 105) @@ ("l" :> 108) @@ ("m" :> 109) @@ ("n" :> 110) @@
  ("o" :> 111) @@ ("r" :> 114) @@ ("s" :> 115) @@ ("t" :> 116) @@ ("u" :> 117) @@
  ("w" :> 119) @@ ("x" :> 120) @@ ("y" :> 121)

\* str.__lt__: lexicographic by code point.
RECURSIVE StrLess(_, _)
StrLess(a, b) ==
  IF a = <<>> THEN b # <<>>
  ELSE IF b = <<>> THEN FALSE
  ELSE IF a[1] = b[1] THEN StrLess(Tail(a), Tail(b))
  ELSE Ord[a[1]] < Ord[b[1]]

\* The characters str.rstrip() removes, among those of the model's alphabet.
IsSpace(c) == c \in {" ", "\t", "\n"}

\* Only the newlines at the end are cut, as by rstrip("\n").
RECURSIVE RStripNewlines(_)
RStripNewlines(s) ==
  IF s = <<>> THEN s
  ELSE IF s[Len(s)] = "\n" THEN RStripNewlines(SubSeq(s, 1, Len(s) - 1))
  ELSE s

\* str.rstrip()
RECURSIVE RStrip(_)
RStrip(s) ==
  IF s = <<>> THEN s
  ELSE IF IsSpace(s[Len(s)]) THEN RStrip(SubSeq(s, 1, Len(s) - 1))
  ELSE s

\* sep.join(parts)
RECURSIVE Join(_, _)
Join(sep, parts) ==
  IF parts = <<>> THEN <<>>
  ELSE IF Len(parts) = 1 THEN parts[1]
  ELSE parts[1] \o sep \o Join(sep, Tail(parts))

----------------------------------------------------------------------------
(* Paths *)

N_docs == <<"d", "o", "c", "s">>
N_lang == <<"1", "0", "_", "l", "a", "n", "g", "u", "a", "g", "e">>
N_a == <<"a">>
N_b == <<"b">>
N_one_md == <<"o", "n", "e", ".", "m", "d">>
N_two_md == <<"t", "w", "o", ".", "m", "d">>
N_a_md == <<"a", ".", "m", "d">>
N_lf_md == <<"l", "f", ".", "m", "d">>
N_d_md == <<"d", ".", "m", "d">>
N_in_md == <<"i", "n", ".", "m", "d">>
N_ld_md == <<"l", "d", ".", "m", "d">>
N_notes_txt == <<"n", "o", "t", "e", "s", ".", "t", "x", "t">>
N_all_md == <<"a", "l", "l", ".", "m", "d">>
N_dot_md == <<".", "m", "d">>
N_f_md == <<"f", ".", "m", "d">>
N_out_md == <<"o", "u", "t", ".", "m", "d">>
N_build == <<"b", "u", "i", "l", "d">>
N_out == <<"o", "u", "t">>

\* Path(__file__).resolve().parents[1]: the root of the model's path space.
RepoRoot == <<>>

\* repo_root / "docs" / "10_language"
DocsDir == RepoRoot \o <<N_docs, N_lang>>

Parent(p) == SubSeq(p, 1, Len(p) - 1)

Name(p) == p[Len(p)]

IsPrefix(base, p) ==
  Len(base) <= Len(p) /\ SubSeq(p, 1, Len(base)) = base

\* path.relative_to(base), for a path at or beneath base
RelativeTo(p, base) == SubSeq(p, Len(base) + 1, Len(p))

\* str(path): the segments joined by "/"
PathStr(p) == Join(<<"/">>, p)

\* The order of two paths as strings, which differs from the order of their
\* segment lists when a name holds a character below "/".
PathLessAsString(p, q) == StrLess(PathStr(p), PathStr(q))

\* PurePath.__lt__: the segment lists compared lexicographically.
RECURSIVE PathLess(_, _)
PathLess(p, q) ==
  IF p = <<>> THEN q # <<>>
  ELSE IF q = <<>> THEN FALSE
  ELSE IF p[1] = q[1] THEN PathLess(Tail(p), Tail(q))
  ELSE StrLess(p[1], q[1])

\* The segments of a string cut at "/", empty segments dropped.
RECURSIVE SplitOn(_, _)
SplitOn(s, cur) ==
  IF s = <<>> THEN (IF cur = <<>> THEN <<>> ELSE <<cur>>)
  ELSE IF s[1] = "/"
       THEN (IF cur = <<>> THEN <<>> ELSE <<cur>>) \o SplitOn(Tail(s), <<>>)
       ELSE SplitOn(Tail(s), Append(cur, s[1]))

\* Path(s) for a relative path string: "." segments are dropped too.
ParsePath(s) == SelectSeq(SplitOn(s, <<>>), LAMBDA seg : seg # <<".">>)

----------------------------------------------------------------------------
(* The file system *)

\* A node's kind is what lstat reports (a regular file, a directory, a
\* named pipe), a symbolic link split by what it resolves to. text is what read_text returns for the node; ok is FALSE when
\* reading it raises (no permission, bytes that are not UTF-8).
DirNode == [kind |-> "dir", text |-> <<>>, ok |-> TRUE]

FileNode(t) == [kind |-> "file", text |-> t, ok |-> TRUE]

\* Path.exists(): follows symbolic links, all of which resolve here.
Exists(f, p) == p = RepoRoot \/ p \in DOMAIN f

\* Path.is_dir(): true of a directory and of a link to one.
IsDir(f, p) ==
  p = RepoRoot \/ (p \in DOMAIN f /\ f[p].kind \in {"dir", "linkdir"})

\* Path.is_file(): true of a regular file and of a link to one.
IsFile(f, p) == p \in DOMAIN f /\ f[p].kind \in {"file", "linkfile"}

\* The entries of directory p, as os.scandir lists them.
Children(f, p) == {q \in DOMAIN f : Len(q) = Len(p) + 1 /\ Parent(q) = p}

\* fnmatch of a name against "*.md"
MatchesMd(name) ==
  Len(name) >= 3 /\ SubSeq(name, Len(name) - 2, Len(name)) = <<".", "m", "d">>

\* Path.rglob("*.md") below directory p: every matching entry of p and of the
\* directories beneath it; a symbolic link to a directory is not descended.
RECURSIVE RGlobMd(_, _)
RGlobMd(f, p) ==
  LET kids == Children(f, p)
  IN {q \in kids : MatchesMd(Name(q))}
       \cup UNION {RGlobMd(f, q) : q \in {k \in kids : f[k].kind = "dir"}}

\* sorted(paths, key=lambda p: p.relative_to(base))
RECURSIVE SortedByRelative(_, _)
SortedByRelative(S, base) ==
  IF S = {} THEN <<>>
  ELSE LET m == CHOOSE x \in S : \A y \in S \ {x} :
                  PathLess(RelativeTo(x, base), RelativeTo(y, base))
       IN <<m>> \o SortedByRelative(S \ {m}, base)

\* The is_file() filter is left out.
CollectAnyEntry(f, docs_dir) ==
  SortedByRelative(IF IsDir(f, docs_dir) THEN RGlobMd(f, docs_dir) ELSE {},
                   docs_dir)

\* collect_markdown_files(docs_dir); rglob of a path that is no directory
\* yields nothing.
collect_markdown_files(f, docs_dir) ==
  SortedByRelative(
    IF IsDir(f, docs_dir)
    THEN {q \in RGlobMd(f, docs_dir) : IsFile(f, q)}
    ELSE {},
    docs_dir)

\* One turn of build_compilation's loop: the section of an already read file.
HeaderPrefix == <<"#", " ", "F", "i", "l", "e", ":", " ">>

Separator == <<"\n", "\n", "-", "-", "-", "\n", "\n">>

Header(rel_path) == HeaderPrefix \o PathStr(rel_path) \o <<"\n", "\n">>

Section(path, repo_root, content) ==
  Header(RelativeTo(path, repo_root)) \o RStrip(content) \o <<"\n">>

\* The final newline is left out.
JoinNoFinalNewline(secs) == Join(Separator, secs)

\* "\n\n---\n\n".join(sections) + "\n"
JoinSections(secs) == Join(Separator, secs) \o <<"\n">>

\* destination.parent.mkdir(parents=True, exist_ok=True): the file system
\* with p and its missing ancestors made directories, or <<>> when an
\* ancestor, or p, exists and is no directory (mkdir raises, nothing made).
RECURSIVE Mkdir(_, _)
Mkdir(f, p) ==
  IF p = RepoRoot THEN <<f>>
  ELSE IF p \in DOMAIN f THEN (IF IsDir(f, p) THEN <<f>> ELSE <<>>)
  ELSE LET r == Mkdir(f, Parent(p))
       IN IF r = <<>> THEN <<>>
          ELSE <<[q \in DOMAIN r[1] \cup {p} |->
                    IF q = p THEN DirNode ELSE r[1][q]]>>

\* open(p, "a"): t is added after what p holds.
WriteTextAppend(f, p, t) ==
  IF IsDir(f, p) \/ ~IsDir(f, Parent(p)) THEN <<>>
  ELSE IF p \in DOMAIN f
       THEN <<[f EXCEPT ![p].text = @ \o t, ![p].ok = TRUE]>>
       ELSE <<[q \in DOMAIN f \cup {p} |-> IF q = p THEN FileNode(t) ELSE f[q]]>>

\* destination.write_text(t): the file system with t as the whole content of
\* p, or <<>> when p is a directory or its parent is none (open raises).
WriteText(f, p, t) ==
  IF IsDir(f, p) \/ ~IsDir(f, Parent(p)) THEN <<>>
  ELSE IF p \in DOMAIN f
       THEN <<[f EXCEPT ![p].text = t, ![p].ok = TRUE]>>
       ELSE <<[q \in DOMAIN f \cup {p} |-> IF q = p THEN FileNode(t) ELSE f[q]]>>

----------------------------------------------------------------------------
(* The functions of the program *)

\* The destination is opened for appending.
write_output_append(f, out, comp, dest) ==
  IF dest = <<>>
  THEN [fs |-> f, stdout |-> out \o comp, raised |-> FALSE]
  ELSE LET made == Mkdir(f, Parent(dest[1]))
       IN IF made = <<>>
          THEN [fs |-> f, stdout |-> out, raised |-> TRUE]
          ELSE LET written == WriteTextAppend(made[1], dest[1], comp)
               IN IF written = <<>>
                  THEN [fs |-> made[1], stdout |-> out, raised |-> TRUE]
                  ELSE [fs |-> written[1], stdout |-> out, raised |-> FALSE]

\* write_output(compiled, destination): the file system and the standard
\* output it leaves, and whether it raised.
write_output(f, out, comp, dest) ==
  IF dest = <<>>
  THEN [fs |-> f, stdout |-> out \o comp, raised |-> FALSE]
  ELSE LET made == Mkdir(f, Parent(dest[1]))
       IN IF made = <<>>
          THEN [fs |-> f, stdout |-> out, raised |-> TRUE]
          ELSE LET written == WriteText(made[1], dest[1], comp)
               IN IF written = <<>>
                  THEN [fs |-> made[1], stdout |-> out, raised |-> TRUE]
                  ELSE [fs |-> written[1], stdout |-> out, raised |-> FALSE]

\* parse_args().output: the positional argument, "-" when it is omitted.
parse_args(av) == IF av = <<>> THEN <<"-">> ELSE av[1]

\* "-" is taken for a file name like any other.
DestinationNoSentinel(out) == <<ParsePath(out)>>

\* The path is taken relative to the documentation root.
DestinationUnderDocs(out) ==
  IF out = <<"-">> THEN <<>> ELSE <<DocsDir \o ParsePath(out)>>

\* destination = None if args.output == "-" else Path(args.output)
Destination(out) == IF out = <<"-">> THEN <<>> ELSE <<ParsePath(out)>>

----------------------------------------------------------------------------
(* The inputs: documentation trees, prior destinations, command lines *)

T_hello == <<"H", "e", "l", "l", "o", "\n", "\n", "\n">>
T_world == <<"W", "o", "r", "l", "d">>
T_blank == <<" ", "\n">>
T_heading == <<"x", "\n", "#", " ", "F", "i", "l", "e", ":", " ", "y">>
T_mixed == <<"a", " ", "\n", "b", "\t", " ", "\n">>
T_old == <<"o", "l", "d", "\n">>

A_out_md == <<"o", "u", "t", ".", "m", "d">>
A_nested == <<"b", "u", "i", "l", "d", "/", "o", "u", "t", "/",
              "a", "l", "l", ".", "m", "d">>
A_indocs == <<"d", "o", "c", "s", "/", "1", "0", "_", "l", "a", "n", "g", "u",
              "a", "g", "e", "/", "a", "l", "l", ".", "m", "d">>
A_build == <<"b", "u", "i", "l", "d">>

\* The command lines: no argument, "-", and four paths.
Argvs == {<<>>, <<<<"-">>>>, <<A_out_md>>, <<A_nested>>, <<A_indocs>>, <<A_build>>}

\* The entries a documentation tree is drawn from.
Candidates ==
  << [path |-> DocsDir \o <<N_a, N_one_md>>, kind |-> "file"],
     [path |-> DocsDir \o <<N_b, N_two_md>>, kind |-> "file"],
     [path |-> DocsDir \o <<N_a_md>>, kind |-> "file"],
     [path |-> DocsDir \o <<N_lf_md>>, kind |-> "linkfile"],
     [path |-> DocsDir \o <<N_d_md, N_in_md>>, kind |-> "file"],
     [path |-> DocsDir \o <<N_ld_md>>, kind |-> "linkdir"],
     [path |-> DocsDir \o <<N_notes_txt>>, kind |-> "file"],
     [path |-> DocsDir \o <<N_all_md>>, kind |-> "file"],
     [path |-> DocsDir \o <<N_dot_md>>, kind |-> "file"],
     [path |-> DocsDir \o <<N_f_md>>, kind |-> "fifo"] >>

\* What a file may hold; the last one cannot be read.
Contents ==
  << [text |-> T_hello, ok |-> TRUE],
     [text |-> T_world, ok |-> TRUE],
     [text |-> T_blank, ok |-> TRUE],
     [text |-> T_heading, ok |-> TRUE],
     [text |-> T_mixed, ok |-> TRUE],
     [text |-> <<>>, ok |-> FALSE] >>

\* Candidate i under content scheme k.
CandidateNode(i, k) ==
  LET c == Contents[((i - 1 + k) % Len(Contents)) + 1]
  IN IF Candidates[i].kind \in {"file", "linkfile"}
     THEN [kind |-> Candidates[i].kind, text |-> c.text, ok |-> c.ok]
     ELSE [kind |-> Candidates[i].kind, text |-> <<>>, ok |-> TRUE]

Ancestors(p) == {SubSeq(p, 1, n) : n \in 1..(Len(p) - 1)}

\* The entries E with every missing ancestor added as a directory.
WithAncestors(E) ==
  [p \in DOMAIN E \cup UNION {Ancestors(q) : q \in DOMAIN E} |->
     IF p \in DOMAIN E THEN E[p] ELSE DirNode]

\* The documentation root: absent, a regular file, or a directory holding
\* at most MaxEntries of the candidates.
DocsTrees ==
  {(<<N_docs>> :> DirNode), (DocsDir :> FileNode(T_world))}
  \cup {[p \in {DocsDir} \cup {Candidates[i].path : i \in S} |->
           IF p = DocsDir THEN DirNode
           ELSE CandidateNode(CHOOSE i \in S : Candidates[i].path = p, k)] :
        <<S, k>> \in {T \in SUBSET (1..Len(Candidates)) : Cardinality(T) <= MaxEntries}
                     \X (0..(Len(Contents) - 1))}

\* What lies beside docs/ before the first run: nothing; an old out.md and a
\* build directory; a directory named out.md and a file named build.
TopTrees ==
  {[p \in {} |-> DirNode],
   (<<N_out_md>> :> FileNode(T_old)) @@ (<<N_build>> :> DirNode),
   (<<N_out_md>> :> DirNode) @@ (<<N_build>> :> FileNode(T_old))}

InitialFileSystems == {WithAncestors(d @@ t) : d \in DocsTrees, t \in TopTrees}

----------------------------------------------------------------------------
(* The process: main() *)

Init ==
  /\ fs \in InitialFileSystems
  /\ argv \in Argvs
  /\ pc = "start"
  /\ output = <<>>
  /\ md_files = <<>>
  /\ sections = <<>>
  /\ compiled = <<>>
  /\ destination = <<>>
  /\ stdout = <<>>
  /\ stderr = ""
  /\ status = -1
  /\ runs = 1
  /\ fs0 = fs
  /\ prev = <<>>

\* raise SystemExit(message), or an exception nothing catches: the process
\* ends with exit status 1 and the message on standard error.
Exit(code, message) ==
  /\ pc' = "exited"
  /\ status' = code
  /\ stderr' = message

\* main, lines 60-65: parse the arguments, locate and validate docs_dir.
Start ==
  /\ pc = "start"
  /\ output' = parse_args(argv)
  /\ IF ~Exists(fs, DocsDir)
     THEN Exit(1, "Missing docs directory")
     ELSE pc' = "collect" /\ UNCHANGED <<status, stderr>>
  /\ UNCHANGED <<fs, argv, md_files, sections, compiled, destination, stdout,
                 runs, fs0, prev>>

\* The empty collection is not refused.
CollectNoEmptyCheck ==
  /\ pc = "collect"
  /\ md_files' = collect_markdown_files(fs, DocsDir)
  /\ pc' = "read"
  /\ UNCHANGED <<fs, argv, output, sections, compiled, destination, stdout,
                 stderr, status, runs, fs0, prev>>

\* main, lines 67-69.
Collect ==
  /\ pc = "collect"
  /\ md_files' = collect_markdown_files(fs, DocsDir)
  /\ IF md_files' = <<>>
     THEN Exit(1, "No markdown files found")
     ELSE pc' = "read" /\ UNCHANGED <<status, stderr>>
  /\ UNCHANGED <<fs, argv, output, sections, compiled, destination, stdout,
                 runs, fs0, prev>>

\* A file that cannot be read is given an empty body and the loop goes on.
ReadFileSkipUnreadable ==
  /\ pc = "read"
  /\ Len(sections) < Len(md_files)
  /\ LET path == md_files[Len(sections) + 1]
     IN sections' = Append(sections,
                           Section(path, RepoRoot,
                                   IF fs[path].ok THEN fs[path].text ELSE <<>>))
  /\ UNCHANGED <<fs, argv, pc, output, md_files, compiled, destination, stdout,
                 stderr, status, runs, fs0, prev>>

\* build_compilation, lines 28-32: one turn of the loop; read_text may raise.
ReadFile ==
  /\ pc = "read"
  /\ Len(sections) < Len(md_files)
  /\ LET path == md_files[Len(sections) + 1]
     IN IF fs[path].ok
        THEN /\ sections' = Append(sections, Section(path, RepoRoot, fs[path].text))
             /\ UNCHANGED <<pc, status, stderr>>
        ELSE /\ Exit(1, "Traceback")
             /\ UNCHANGED sections
  /\ UNCHANGED <<fs, argv, output, md_files, compiled, destination, stdout,
                 runs, fs0, prev>>

\* build_compilation, line 33, and main, lines 71-72.
Compile ==
  /\ pc = "read"
  /\ Len(sections) = Len(md_files)
  /\ compiled' = <<JoinSections(sections)>>
  /\ destination' = Destination(output)
  /\ pc' = "write"
  /\ UNCHANGED <<fs, argv, output, md_files, sections, stdout, stderr, status,
                 runs, fs0, prev>>

\* main, line 73: write_output, then the process ends.
WriteOutput ==
  /\ pc = "write"
  /\ LET r == write_output(fs, stdout, compiled[1], destination)
     IN /\ fs' = r.fs
        /\ stdout' = r.stdout
        /\ IF r.raised THEN Exit(1, "Traceback") ELSE Exit(0, "")
  /\ UNCHANGED <<argv, output, md_files, sections, compiled, destination,
                 runs, fs0, prev>>

\* The same command line is run again, as a new process, on the file system
\* the last one left.
Rerun ==
  /\ pc = "exited"
  /\ runs < MaxRuns
  /\ runs' = runs + 1
  /\ pc' = "start"
  /\ output' = <<>>
  /\ md_files' = <<>>
  /\ sections' = <<>>
  /\ compiled' = <<>>
  /\ destination' = <<>>
  /\ stdout' = <<>>
  /\ stderr' = ""
  /\ status' = -1
  /\ fs0' = fs
  /\ prev' = compiled
  /\ UNCHANGED <<fs, argv>>

Next == Start \/ Collect \/ ReadFile \/ Compile \/ WriteOutput \/ Rerun

Spec == Init /\ [][Next]_vars

----------------------------------------------------------------------------
(* What the properties are stated with *)

\* A successful run has ended: the writer returned and the exit status is 0.
Succeeded == pc = "exited" /\ status = 0

\* The collector has returned in the current process.
Collected ==
  pc \in {"read", "write"} \/ (pc = "exited" /\ stderr # "Missing docs directory")

\* What the finished process emitted: its standard output, or the whole
\* content of the destination file.
Emitted == IF destination = <<>> THEN stdout ELSE fs[destination[1]].text

\* The matching files of a documentation tree, stated on the tree: every
\* entry strictly beneath the root, reached through directories only, whose
\* name ends in ".md" and which is, or resolves to, a regular file.
MarkdownFiles(f) ==
  {p \in DOMAIN f :
     /\ IsPrefix(DocsDir, p) /\ p # DocsDir
     /\ \A a \in Ancestors(p) : f[a].kind = "dir"
     /\ Len(Name(p)) >= 3
     /\ Name(p)[Len(Name(p)) - 2] = "." /\ Name(p)[Len(Name(p)) - 1] = "m"
     /\ Name(p)[Len(Name(p))] = "d"
     /\ f[p].kind \in {"file", "linkfile"}}

\* p comes before q segment by segment: at the first segment where they
\* differ p's is the smaller string, or p is a proper prefix of q.
SegmentsBefore(p, q) ==
  \E i \in 1..(Len(q)) :
    /\ i <= Len(p) + 1
    /\ \A j \in 1..(i - 1) : p[j] = q[j]
    /\ (i = Len(p) + 1 \/ StrLess(p[i], q[i]))

\* The lines of a text: the pieces between its newlines.
RECURSIVE LinesOf(_, _)
LinesOf(s, cur) ==
  IF s = <<>> THEN <<cur>>
  ELSE IF s[1] = "\n" THEN <<cur>> \o LinesOf(Tail(s), <<>>)
  ELSE LinesOf(Tail(s), Append(cur, s[1]))

IsHeadingLine(l) ==
  Len(l) >= 8 /\ SubSeq(l, 1, 8) = <<"#", " ", "F", "i", "l", "e", ":", " ">>

\* What follows "# File: " on each heading line of a text, in order.
HeadingPaths(s) ==
  LET hs == SelectSeq(LinesOf(s, <<>>), IsHeadingLine)
  IN [i \in 1..Len(hs) |-> SubSeq(hs[i], 9, Len(hs[i]))]

\* The content of a source file with its trailing whitespace cut, stated as
\* the prefix that ends at the last character that is no whitespace.
TrimmedLen(t) ==
  CHOOSE n \in 0..Len(t) :
    /\ n = 0 \/ ~(t[n] \in {" ", "\t", "\n"})
    /\ \A j \in (n + 1)..Len(t) : t[j] \in {" ", "\t", "\n"}

\* Where the i-th section's body starts in the compiled string, less one:
\* the sections before it, the separators between, and its own heading.
RECURSIVE BodyOffset(_, _)
BodyOffset(f, i) ==
  LET head == 8 + Len(PathStr(md_files[i])) + 2
  IN IF i = 1 THEN head
     ELSE BodyOffset(f, i - 1) + TrimmedLen(f[md_files[i - 1]].text) + 1
            + 7 + head

HasTrailingSpace(t) == t # <<>> /\ t[Len(t)] \in {" ", "\t", "\n"}

----------------------------------------------------------------------------
(* The properties *)

\* C1, as stated: whatever the files hold, the heading lines "# File: ..." of
\* the compiled output are exactly the collected files' paths, one line each,
\* in strictly ascending order of path.
C1_HeadingsAnyContent ==
  compiled # <<>> =>
    LET hs == HeadingPaths(compiled[1])
    IN /\ Len(hs) = Cardinality(MarkdownFiles(fs0))
       /\ {hs[i] : i \in 1..Len(hs)} = {PathStr(p) : p \in MarkdownFiles(fs0)}
       /\ \A i, j \in 1..Len(hs) :
            i < j => SegmentsBefore(ParsePath(hs[i]), ParsePath(hs[j]))

\* C1, amended: when no collected file holds a line that begins "# File: ",
\* the heading lines of the compiled output are exactly the collected files'
\* paths, one line each, in strictly ascending order of path, segment by
\* segment.
C1_Headings ==
  (compiled # <<>>
     /\ \A p \in MarkdownFiles(fs0) : HeadingPaths(fs0[p].text) = <<>>) =>
    LET hs == HeadingPaths(compiled[1])
    IN /\ Len(hs) = Cardinality(MarkdownFiles(fs0))
       /\ {hs[i] : i \in 1..Len(hs)} = {PathStr(p) : p \in MarkdownFiles(fs0)}
       /\ \A i, j \in 1..Len(hs) :
            i < j => SegmentsBefore(ParsePath(hs[i]), ParsePath(hs[j]))

\* A successful run over a.md, a/one.md and one more file, none of them
\* holding a heading line: the string order and the segment order differ.
C1_Witness ==
  /\ Succeeded
  /\ Len(md_files) = 3
  /\ DocsDir \o <<N_a_md>> \in MarkdownFiles(fs0)
  /\ DocsDir \o <<N_a, N_one_md>> \in MarkdownFiles(fs0)
  /\ \A p \in MarkdownFiles(fs0) : HeadingPaths(fs0[p].text) = <<>>

\* The tree of the scenario: a/one.md holding "Hello\n\n\n", b/two.md holding
\* "World", and nothing else beneath the documentation root.
Scenario ==
  /\ {p \in DOMAIN fs0 : IsPrefix(DocsDir, p)} =
       {DocsDir, DocsDir \o <<N_a>>, DocsDir \o <<N_a, N_one_md>>,
        DocsDir \o <<N_b>>, DocsDir \o <<N_b, N_two_md>>}
  /\ fs0[DocsDir \o <<N_a, N_one_md>>] = FileNode(T_hello)
  /\ fs0[DocsDir \o <<N_b, N_two_md>>] = FileNode(T_world)

ScenarioClaimedOutput ==
  <<"#", " ", "F", "i", "l", "e", ":", " ", "a", "/", "o", "n", "e", ".",
    "m", "d", "\n", "\n", "H", "e", "l", "l", "o", "\n", "\n", "-", "-",
    "-", "\n", "\n", "#", " ", "F", "i", "l", "e", ":", " ", "b", "/",
    "t", "w", "o", ".", "m", "d", "\n", "\n", "W", "o", "r", "l", "d",
    "\n">>

ScenarioOutput ==
  <<"#", " ", "F", "i", "l", "e", ":", " ", "d", "o", "c", "s", "/", "1",
    "0", "_", "l", "a", "n", "g", "u", "a", "g", "e", "/", "a", "/", "o",
    "n", "e", ".", "m", "d", "\n", "\n", "H", "e", "l", "l", "o", "\n",
    "\n", "\n", "-", "-", "-", "\n", "\n", "#", " ", "F", "i", "l", "e",
    ":", " ", "d", "o", "c", "s", "/", "1", "0", "_", "l", "a", "n", "g",
    "u", "a", "g", "e", "/", "b", "/", "t", "w", "o", ".", "m", "d", "\n",
    "\n", "W", "o", "r", "l", "d", "\n", "\n">>

\* C2, as stated: in the scenario the run emits "# File: a/one.md", a blank
\* line, "Hello", one blank line, "---", a blank line, "# File: b/two.md", a
\* blank line, "World" and the end of the stream (with or without one more
\* newline after the one that ends the line "World").
C2_ScenarioAsStated ==
  (Scenario /\ Succeeded) =>
    Emitted \in {ScenarioClaimedOutput, ScenarioClaimedOutput \o <<"\n">>}

\* C2, amended: in the scenario the run emits the headings with the paths
\* relative to the repository root, two blank lines between "Hello" and
\* "---", and a blank line after "World".
C2_Scenario == (Scenario /\ Succeeded) => Emitted = ScenarioOutput

C2_Witness == Scenario /\ Succeeded /\ destination = <<>> /\ stdout # <<>>

\* C3: in the compiled string the body of every section is the file's content
\* up to its last character that is no whitespace, then exactly one newline,
\* then the separator, or for the last file the stream's final newline and
\* the end of the stream.
C3_TrailingWhitespace ==
  compiled # <<>> =>
    \A i \in 1..Len(md_files) :
      LET t == fs0[md_files[i]].text
          n == TrimmedLen(t)
          at == BodyOffset(fs0, i)
          out == compiled[1]
      IN /\ at + n + 1 <= Len(out)
         /\ SubSeq(out, at + 1, at + n) = SubSeq(t, 1, n)
         /\ out[at + n + 1] = "\n"
         /\ IF i < Len(md_files)
            THEN SubSeq(out, at + n + 2, at + n + 8) =
                   <<"\n", "\n", "-", "-", "-", "\n", "\n">>
            ELSE SubSeq(out, at + n + 2, Len(out)) = <<"\n">>

\* A compilation of two files or more where a file before the last and the
\* last file both end in whitespace.
C3_Witness ==
  /\ Succeeded
  /\ Len(md_files) >= 2
  /\ HasTrailingSpace(fs0[md_files[1]].text)
  /\ HasTrailingSpace(fs0[md_files[Len(md_files)]].text)

\* C4: when the documentation root exists and holds no matching file, the
\* process never reaches the compiler or the writer, leaves the file system
\* and standard output as they were, and ends with a non-zero status
\* reporting that no markdown files were found.
C4_EmptyTree ==
  (Exists(fs0, DocsDir) /\ MarkdownFiles(fs0) = {}) =>
    /\ fs = fs0
    /\ stdout = <<>>
    /\ pc \in {"start", "collect", "exited"}
    /\ pc = "exited" => status # 0 /\ stderr = "No markdown files found"

\* The run over an existing root that holds only entries that do not match
\* has ended, with a destination path on the command line that does not exist.
C4_Witness ==
  /\ pc = "exited"
  /\ IsDir(fs0, DocsDir)
  /\ Children(fs0, DocsDir) # {}
  /\ MarkdownFiles(fs0) = {}
  /\ argv = <<A_nested>>
  /\ ~Exists(fs0, <<N_build>>)

\* C5, as stated: when the documentation root is not a directory (absent, or
\* something that is no directory), the run ends reporting the missing path,
\* with a non-zero status and nothing written.
C5_RootNotADirectory ==
  (~IsDir(fs0, DocsDir) /\ pc = "exited") =>
    /\ status # 0
    /\ stderr = "Missing docs directory"
    /\ fs = fs0
    /\ stdout = <<>>

\* C6: nothing is emitted before the Write step, which is reached only with
\* the root validated, the collection non-empty and every collected file
\* read; and a run one of whose collected files cannot be read ends in
\* failure with the file system and standard output as they were.
C6_AllOrNothing ==
  /\ (fs # fs0 \/ stdout # <<>>) => pc = "exited" /\ compiled # <<>>
  /\ pc = "read" => Exists(fs0, DocsDir) /\ md_files # <<>> /\ compiled = <<>>
  /\ compiled # <<>> =>
       /\ md_files # <<>>
       /\ Len(sections) = Len(md_files)
       /\ \A p \in MarkdownFiles(fs0) : fs0[p].ok
  /\ (pc = "exited" /\ \E p \in MarkdownFiles(fs0) : ~fs0[p].ok) =>
       status # 0 /\ fs = fs0 /\ stdout = <<>> /\ compiled = <<>>

\* A run given a destination path ended on a file it could not read, after
\* it had read another.
C6_Witness ==
  /\ pc = "exited"
  /\ stderr = "Traceback"
  /\ compiled = <<>>
  /\ Len(sections) >= 1
  /\ argv = <<A_out_md>>

\* C7: after write_output has returned for a destination path, the file's
\* whole content is the compiled string, whatever it held before, every
\* ancestor of it is a directory, and writing the same string there once
\* more leaves the file system as it is.
C7_WriteIdempotent ==
  (Succeeded /\ destination # <<>>) =>
    /\ destination[1] \in DOMAIN fs
    /\ fs[destination[1]].kind = "file"
    /\ fs[destination[1]].text = compiled[1]
    /\ \A a \in Ancestors(destination[1]) : a \in DOMAIN fs /\ fs[a].kind = "dir"
    /\ LET again == write_output(fs, stdout, compiled[1], destination)
       IN ~again.raised /\ again.fs = fs

\* The writer replaced a destination that held other content.
C7_Witness ==
  /\ Succeeded
  /\ destination # <<>>
  /\ destination[1] \in DOMAIN fs0
  /\ fs0[destination[1]].text = T_old
  /\ fs[destination[1]].text # T_old

\* The path each command line of the model names.
NamedPath(av) ==
  IF av = <<A_out_md>> THEN <<N_out_md>>
  ELSE IF av = <<A_nested>> THEN <<N_build, N_out, N_all_md>>
  ELSE IF av = <<A_indocs>> THEN DocsDir \o <<N_all_md>>
  ELSE <<N_build>>

\* C8: with no argument or "-", a successful run leaves the compiled string
\* on standard output and the file system as it was; with any other argument
\* no run writes to standard output, and a successful run leaves the compiled
\* string as the content of the file the argument names, changing nothing
\* else but for the directories it made above that file.
C8_Routing ==
  IF argv = <<>> \/ argv = << <<"-">> >>
  THEN /\ fs = fs0
       /\ Succeeded => stdout = compiled[1]
  ELSE /\ stdout = <<>>
       /\ Succeeded =>
            /\ fs[NamedPath(argv)] = FileNode(compiled[1])
            /\ \A p \in DOMAIN fs0 \ {NamedPath(argv)} :
                 p \in DOMAIN fs /\ fs[p] = fs0[p]
            /\ \A p \in DOMAIN fs \ DOMAIN fs0 :
                 p = NamedPath(argv)
                   \/ (p \in Ancestors(NamedPath(argv)) /\ fs[p] = DirNode)

\* A successful run wrote build/out/all.md where build/ did not exist.
C8_Witness ==
  /\ Succeeded
  /\ argv = <<A_nested>>
  /\ ~Exists(fs0, <<N_build>>)
  /\ Exists(fs, <<N_build, N_out, N_all_md>>)

\* C9: what the collector returned is exactly the matching files of the tree,
\* each once, in strictly ascending order of the path relative to the root;
\* no directory, no link to a directory and no entry without the suffix is in
\* it, and a tree without a match gives the empty sequence.
C9_Collector ==
  Collected =>
    /\ {md_files[i] : i \in 1..Len(md_files)} = MarkdownFiles(fs0)
    /\ \A i, j \in 1..Len(md_files) :
         i < j => SegmentsBefore(RelativeTo(md_files[i], DocsDir),
                                 RelativeTo(md_files[j], DocsDir))
    /\ \A i \in 1..Len(md_files) :
         /\ fs0[md_files[i]].kind \notin {"dir", "linkdir"}
         /\ SubSeq(Name(md_files[i]), Len(Name(md_files[i])) - 2,
                   Len(Name(md_files[i]))) = <<".", "m", "d">>
    /\ MarkdownFiles(fs0) = {} => md_files = <<>>

\* The collector returned one file from a tree that also holds a directory
\* and a link to a directory named *.md.
C9_Witness ==
  /\ pc = "read"
  /\ Exists(fs0, DocsDir \o <<N_d_md>>)
  /\ Exists(fs0, DocsDir \o <<N_ld_md>>)
  /\ md_files = <<DocsDir \o <<N_d_md, N_in_md>>>>

\* What lies at or beneath the documentation root.
DocsPart(f) == [p \in {q \in DOMAIN f : IsPrefix(DocsDir, q)} |-> f[p]]

\* C10, as stated: whatever the output argument, a run leaves everything at
\* or beneath the documentation root as it was, changes the file system only
\* in the writer, and compiles the same string as the run before it.
C10_ReadOnlyAnyArgument ==
  /\ DocsPart(fs) = DocsPart(fs0)
  /\ fs # fs0 => pc = "exited" /\ compiled # <<>>
  /\ (prev # <<>> /\ compiled # <<>>) => compiled = prev

\* C10, amended: when the output argument names no path at or beneath the
\* documentation root, a run leaves everything at or beneath the root as it
\* was, changes the file system only in the writer, and compiles the same
\* string as the run before it.
C10_ReadOnly ==
  (argv = <<>> \/ ~IsPrefix(DocsDir, ParsePath(argv[1]))) =>
    /\ DocsPart(fs) = DocsPart(fs0)
    /\ fs # fs0 => pc = "exited" /\ compiled # <<>>
    /\ (prev # <<>> /\ compiled # <<>>) => compiled = prev

\* The second run to out.md has compiled, after the first wrote the file.
C10_Witness ==
  /\ runs = 2
  /\ argv = <<A_out_md>>
  /\ prev # <<>>
  /\ compiled = prev
  /\ Exists(fs0, <<N_out_md>>)

====
